---- MODULE Spec2Model ----
(***************************************************************************)
(* Layout geometry of src/main.js: createStructure (columns, rafters, roof *)
(* sheets, solar panel instances) and generateParking (bay dividers and    *)
(* randomly placed vehicles).                                              *)
(*                                                                         *)
(* Numbers.  The source computes in IEEE doubles.  Here every length is an *)
(* integer number of millimetres, every sine and cosine is an integer      *)
(* number of 1/TrigScale, and every value of Math.random() is an integer   *)
(* number of 1/RngScale.  A quotient is taken with Div, which truncates    *)
(* towards zero, so that, as with doubles, negating the operand negates    *)
(* the result.  The three loop counts (colCount, numBays, numCoachBays)    *)
(* are the exception: a rounding error of one unit in the last place can   *)
(* move Math.ceil or Math.floor by one, so their quotients are computed on *)
(* IEEE 754 doubles, bit for bit (section "IEEE 754 doubles").             *)
(*                                                                         *)
(* Angles.  An angle is held as the pair of its sine and cosine; Atan,     *)
(* Radians, Neg, AbsAngle and PlusPi build such pairs and Sin and Cos read *)
(* them.                                                                   *)
(***************************************************************************)
EXTENDS Integers, Sequences, FiniteSets, TLC

\* ------------------------------------------------------------------------
\* Bounds of the model
\* ------------------------------------------------------------------------
MaxRows == 2

MaxPanelsPerRow == 2

MaxBays == 2

\* ------------------------------------------------------------------------
\* Fixed-point arithmetic
\* ------------------------------------------------------------------------
TrigScale == 10 ^ 4

RngScale == 10 ^ 3

Abs(a) == IF a < 0 THEN -a ELSE a

\* the double Infinity; every finite value of the model is smaller
Infinity == 2 ^ 30

\* a / b; a nonzero a over 0 is Infinity or -Infinity
Div(a, b) ==
    IF b = 0 /\ a > 0 THEN Infinity
    ELSE IF b = 0 /\ a < 0 THEN -Infinity
    ELSE IF (a < 0) = (b < 0) THEN Abs(a) \div Abs(b) ELSE -(Abs(a) \div Abs(b))

RECURSIVE SqrtSearch(_, _, _)
SqrtSearch(n, lo, hi) ==
    IF lo >= hi THEN lo
    ELSE LET mid == (lo + hi + 1) \div 2
         IN IF mid * mid <= n THEN SqrtSearch(n, mid, hi)
                              ELSE SqrtSearch(n, lo, mid - 1)

\* Math.sqrt, rounded down
Sqrt(n) == SqrtSearch(n, 0, IF n < 46340 THEN n ELSE 46340)

\* ------------------------------------------------------------------------
\* Angles
\* ------------------------------------------------------------------------
ZeroAngle == [sin |-> 0, cos |-> TrigScale]

\* Math.atan(t), t a ratio in 1/TrigScale:
\* sin = t / sqrt(1 + t^2), cos = 1 / sqrt(1 + t^2)
\* and Math.atan(Infinity) = pi/2, Math.atan(-Infinity) = -pi/2
Atan(t) ==
    IF t = Infinity THEN [sin |-> TrigScale, cos |-> 0]
    ELSE IF t = -Infinity THEN [sin |-> -TrigScale, cos |-> 0]
    ELSE LET hyp == Sqrt(TrigScale * TrigScale + t * t)
         IN [sin |-> Div(t * TrigScale, hyp), cos |-> Div(TrigScale * TrigScale, hyp)]

Sin(a) == a.sin

Cos(a) == a.cos

\* unary minus on an angle
Neg(a) == [sin |-> -a.sin, cos |-> a.cos]

\* Math.abs on an angle in (-pi, pi)
AbsAngle(a) == IF a.sin < 0 THEN Neg(a) ELSE a

\* a + Math.PI
PlusPi(a) == [sin |-> -a.sin, cos |-> -a.cos]

\* Vector3.applyAxisAngle(new Vector3(0, 0, 1), a)
ApplyAxisAngleZ(v, a) ==
    << Div(v[1] * Cos(a) - v[2] * Sin(a), TrigScale),
       Div(v[1] * Sin(a) + v[2] * Cos(a), TrigScale),
       v[3] >>

NoRotation == << ZeroAngle, ZeroAngle, ZeroAngle >>

\* ------------------------------------------------------------------------
\* IEEE 754 doubles, for the quotients that decide a loop count
\* ------------------------------------------------------------------------
\* A double is [s, hi, lo, e]: s is its sign (-1, 0, 1; 0 for zero, 2 for
\* Infinity) and hi * 2^27 + lo its 53-bit significand, 2^52 <= significand
\* < 2^53, so that its magnitude is (hi * 2^27 + lo) * 2^e.  A significand is
\* handled as the pair << hi, lo >>.
Limb == 2 ^ 27

DblZero == [s |-> 0, hi |-> 0, lo |-> 0, e |-> 0]

DblInfinity == [s |-> 2, hi |-> 0, lo |-> 0, e |-> 0]

SigTwice(x) == << 2 * x[1] + ((2 * x[2]) \div Limb), (2 * x[2]) % Limb >>

SigGeq(x, y) == x[1] > y[1] \/ (x[1] = y[1] /\ x[2] >= y[2])

\* x - y for x >= y
SigMinus(x, y) ==
    IF x[2] >= y[2] THEN << x[1] - y[1], x[2] - y[2] >>
    ELSE << x[1] - y[1] - 1, x[2] + Limb - y[2] >>

\* a significand and exponent brought to 2^52 <= significand
RECURSIVE Normalised(_, _)
Normalised(x, e) ==
    IF x[1] >= 2 ^ 25 THEN [s |-> 1, hi |-> x[1], lo |-> x[2], e |-> e]
    ELSE Normalised(SigTwice(x), e - 1)

\* the next double above the positive double of significand << hi, lo >>
RoundUp(hi, lo, e) ==
    IF lo + 1 < Limb THEN [s |-> 1, hi |-> hi, lo |-> lo + 1, e |-> e]
    ELSE IF hi + 1 < 2 ^ 26 THEN [s |-> 1, hi |-> hi + 1, lo |-> 0, e |-> e]
    ELSE [s |-> 1, hi |-> 2 ^ 25, lo |-> 0, e |-> e + 1]

\* n / d = (n' / d') * 2^ex with d' <= n' < 2 * d'
RECURSIVE NormRatio(_, _, _)
NormRatio(n, d, ex) ==
    IF n < d THEN NormRatio(2 * n, d, ex - 1)
    ELSE IF n >= 2 * d THEN NormRatio(n, 2 * d, ex + 1)
    ELSE [n |-> n, d |-> d, ex |-> ex]

\* k more binary digits of r / d after the digits acc, r < d
RECURSIVE RatioBits(_, _, _, _)
RatioBits(r, d, k, acc) ==
    IF k = 0 THEN [acc |-> acc, r |-> r]
    ELSE IF 2 * r >= d THEN RatioBits(2 * r - d, d, k - 1, 2 * acc + 1)
    ELSE RatioBits(2 * r, d, k - 1, 2 * acc)

\* the double nearest to n / d (ties to even) for integers n > 0, d > 0:
\* the value of a decimal literal such as 2.4 = 2400 / 1000
FromRatio(n, d) ==
    LET nr == NormRatio(n, d, 0)
        h == RatioBits(nr.n - nr.d, nr.d, 25, 1)
        l == RatioBits(h.r, nr.d, 27, 0)
        up == 2 * l.r > nr.d \/ (2 * l.r = nr.d /\ l.acc % 2 = 1)
    IN IF up THEN RoundUp(h.acc, l.acc, nr.ex - 52)
       ELSE [s |-> 1, hi |-> h.acc, lo |-> l.acc, e |-> nr.ex - 52]

\* the double of a length given in millimetres, in metres as CONFIG holds it
Metres(mm) ==
    IF mm = 0 THEN DblZero
    ELSE IF mm > 0 THEN FromRatio(mm, 1000)
    ELSE [FromRatio(-mm, 1000) EXCEPT !.s = -1]

\* k more binary digits of r / m after the digits acc, for significands r < m
RECURSIVE DivBits(_, _, _, _)
DivBits(r, m, k, acc) ==
    IF k = 0 THEN [acc |-> acc, r |-> r]
    ELSE LET r2 == SigTwice(r)
         IN IF SigGeq(r2, m) THEN DivBits(SigMinus(r2, m), m, k - 1, 2 * acc + 1)
            ELSE DivBits(r2, m, k - 1, 2 * acc)

\* a / b for positive finite doubles, rounded to nearest, ties to even
DivPositive(a, b) ==
    LET ma == << a.hi, a.lo >>
        mb == << b.hi, b.lo >>
        ge == SigGeq(ma, mb)
        r0 == IF ge THEN SigMinus(ma, mb) ELSE SigMinus(SigTwice(ma), mb)
        e == IF ge THEN a.e - b.e - 52 ELSE a.e - b.e - 53
        h == DivBits(r0, mb, 25, 1)
        l == DivBits(h.r, mb, 27, 0)
        r2 == SigTwice(l.r)
        up == (r2 # mb /\ SigGeq(r2, mb)) \/ (r2 = mb /\ l.acc % 2 = 1)
    IN IF up THEN RoundUp(h.acc, l.acc, e)
       ELSE [s |-> 1, hi |-> h.acc, lo |-> l.acc, e |-> e]

\* the operator / on doubles; the divisor is never negative here
DblDiv(a, b) ==
    IF b.s = 2 THEN DblZero
    ELSE IF b.s = 0 THEN (IF a.s = 0 THEN DblZero ELSE DblInfinity)
    ELSE IF a.s = 0 THEN DblZero
    ELSE [DivPositive(a, b) EXCEPT !.s = a.s]

\* the integer part of a positive double below 2^31, and whether the double
\* is that integer
IntegerPart(x) ==
    IF x.e <= -53 THEN [int |-> 0, exact |-> FALSE]
    ELSE IF -x.e >= 27
         THEN LET p == 2 ^ (-x.e - 27)
              IN [int |-> x.hi \div p, exact |-> (x.hi % p = 0 /\ x.lo = 0)]
         ELSE LET p == 2 ^ (-x.e)
              IN [int |-> x.hi * (2 ^ (27 + x.e)) + (x.lo \div p),
                  exact |-> (x.lo % p = 0)]

\* Math.floor and Math.ceil of a finite double
MathFloor(x) ==
    IF x.s = 0 THEN 0
    ELSE LET ip == IntegerPart(x)
         IN IF x.s = 1 THEN ip.int
            ELSE IF ip.exact THEN -ip.int ELSE -(ip.int + 1)

MathCeil(x) ==
    IF x.s = 0 THEN 0
    ELSE LET ip == IntegerPart(x)
         IN IF x.s = -1 THEN -ip.int
            ELSE IF ip.exact THEN ip.int ELSE ip.int + 1

\* 10 * 2^(-e) as a significand, for e <= -27
TenAt(e) == << 10 * (2 ^ (-e - 27)), 0 >>

\* the significand x shifted right by n places, 0 <= n < 27, and what is
\* shifted out
SigShiftRight(x, n) ==
    LET p == 2 ^ n
    IN [q |-> << x[1] \div p, (x[1] % p) * (Limb \div p) + (x[2] \div p) >>,
        rem |-> x[2] % p]

\* a significand that may have reached 2^53 or fallen below 2^52
Renormalised(x, e) ==
    IF x[1] >= 2 ^ 26 THEN [s |-> 1, hi |-> 2 ^ 25, lo |-> 0, e |-> e + 1]
    ELSE Normalised(x, e)

\* 10 - a for a double 0 < a < 5 (the difference lies in (5, 10) and is
\* rounded to nearest, ties to even)
TenMinusSmall(a) ==
    LET m == << a.hi, a.lo >>
        k == a.e + 52
        eR == IF k >= 1 /\ ~(k = 1 /\ m = << 2 ^ 25, 0 >>) THEN -50 ELSE -49
        sh == SigShiftRight(m, eR - a.e)
        half == 2 ^ (eR - a.e - 1)
        base == SigMinus(SigMinus(TenAt(eR), sh.q), << 0, 1 >>)
        next == IF base[2] + 1 < Limb THEN << base[1], base[2] + 1 >>
                ELSE << base[1] + 1, 0 >>
    IN IF sh.rem = 0 THEN Renormalised(SigMinus(TenAt(eR), sh.q), eR)
       ELSE IF sh.rem < half \/ (sh.rem = half /\ base[2] % 2 = 1)
            THEN Renormalised(next, eR)
            ELSE Renormalised(base, eR)

\* a - 10 for a double 0 <= a < 2^26
MinusTen(a) ==
    IF a.s = 0 THEN [s |-> -1, hi |-> 10 * (2 ^ 22), lo |-> 0, e |-> -49]
    ELSE LET m == << a.hi, a.lo >>
             k == a.e + 52
         IN IF k >= 3
            THEN (IF m = TenAt(a.e) THEN DblZero
                  ELSE IF SigGeq(m, TenAt(a.e))
                       THEN Normalised(SigMinus(m, TenAt(a.e)), a.e)
                       ELSE [Normalised(SigMinus(TenAt(a.e), m), a.e) EXCEPT !.s = -1])
            ELSE IF k = 2 /\ SigGeq(m, << 5 * (2 ^ 23), 0 >>)
                 THEN [Normalised(SigMinus(TenAt(a.e), m), a.e) EXCEPT !.s = -1]
                 ELSE [TenMinusSmall(a) EXCEPT !.s = -1]

\* Math.sin(deg * (Math.PI / 180)) for the angles of the configurations
MathSinDeg(deg) ==
    IF deg = 0 THEN DblZero
    ELSE IF deg = 30 THEN [s |-> 1, hi |-> 67108863, lo |-> 134217727, e |-> -54]
    ELSE IF deg = 45 THEN [s |-> 1, hi |-> 47453132, lo |-> 109001676, e |-> -53]
    ELSE IF deg = 60 THEN [s |-> 1, hi |-> 58117981, lo |-> 5786794, e |-> -53]
    ELSE [s |-> 1, hi |-> 2 ^ 25, lo |-> 0, e |-> -52]

\* ------------------------------------------------------------------------
\* Configurations
\* ------------------------------------------------------------------------
DefaultStructure ==
    [length |-> 96000, width |-> 12000, columnSpacing |-> 6000,
     eavesHeight |-> 5000, ridgeHeight |-> 5900]

DefaultSolar ==
    [width |-> 1134, length |-> 1762, rowsPerSlope |-> 3, panelsPerRow |-> 83,
     gapX |-> 30, gapY |-> 50]

DarkGrey == 4473924

White == 16777215

DefaultParking ==
    [car |-> [width |-> 2400, length |-> 4800, angle |-> 45, colors |-> << DarkGrey >>],
     coach |-> [width |-> 3500, length |-> 12000, angle |-> 30, colors |-> << DarkGrey >>]]

\* 8.4 / 1.2 is 7.000000000000001 in doubles
StructureConfigs ==
    [length : {2000, 6000, 10000, 12000}, width : {8000, 12000}, columnSpacing : {4000, 6000},
     eavesHeight : {5000}, ridgeHeight : {5900, 8000}]
      \cup [length : {8400}, width : {8000}, columnSpacing : {1200},
            eavesHeight : {5000}, ridgeHeight : {5900}]

SolarConfigs ==
    [width : {1134}, length : {1762, 2000}, rowsPerSlope : 0 .. MaxRows,
     panelsPerRow : 0 .. MaxPanelsPerRow, gapX : {0, 30}, gapY : {0, 50}]

CarConfigs ==
    [width : {2400, 4800}, length : {4800, 6000}, angle : {30, 45},
     colors : {<< DarkGrey >>, << DarkGrey, White >>}]

CoachConfigs ==
    [width : {3500}, length : {12000}, angle : {30, 45}, colors : {<< DarkGrey >>}]

\* (17 - 10) / (3.5 / Math.sin(30 degrees)) is 0.9999999999999999 in doubles
ParkingLengths == {3000, 8000, 12000, 17000, 18000, 20000}

\* the configurations of the two-call specification
TwiceConfigs ==
    {[structure |-> [DefaultStructure EXCEPT !.length = len],
      solar |-> DefaultSolar,
      parking |-> [car |-> c, coach |-> DefaultParking.coach]] :
        len \in {8000, 20000},
        c \in {[DefaultParking.car EXCEPT !.width = 4800, !.angle = 30,
                                          !.colors = << DarkGrey, White >>],
               DefaultParking.car}}

\* structures outside the valid range
AnyStructureConfigs ==
    {s \in [length : {0, 96000}, width : {-8000, 0, 8000}, columnSpacing : {6000},
            eavesHeight : {5000}, ridgeHeight : {4000, 5000, 8000}] :
        ~(s.width = 0 /\ s.ridgeHeight = s.eavesHeight)}

AnySolarConfigs ==
    {p \in SolarConfigs :
        p.rowsPerSlope = 1 /\ p.length = 1762 /\ p.gapX = 30 /\ p.gapY = 50}

\* vehicle classes with a degenerate bay angle
AnyCarConfigs ==
    [width : {2400}, length : {4800}, angle : {0, 45, 90}, colors : {<< DarkGrey >>}]

AnyCoachConfigs ==
    [width : {3500}, length : {12000}, angle : {0, 30, 90}, colors : {<< DarkGrey >>}]

\* ------------------------------------------------------------------------
\* The three loop counts
\* ------------------------------------------------------------------------
\* Math.ceil(length / columnSpacing) + 1 on doubles (line 201)
ColCountOf(length, columnSpacing) ==
    MathCeil(DblDiv(Metres(length), Metres(columnSpacing))) + 1

\* Math.floor(length / (bayW / Math.sin(angleRad))) - 1 on doubles
\* (lines 502 and 504)
NumBaysOf(length, width, angle) ==
    MathFloor(DblDiv(Metres(length), DblDiv(Metres(width), MathSinDeg(angle)))) - 1

\* Math.floor((length - 10) / (coachW / Math.sin(coachAngle))) on doubles
\* (lines 675 and 678)
NumCoachBaysOf(length, width, angle) ==
    MathFloor(DblDiv(MinusTen(Metres(length)), DblDiv(Metres(width), MathSinDeg(angle))))

\* the structures and vehicle classes of the configurations above
StructuresUsed ==
    StructureConfigs \cup AnyStructureConfigs \cup {c.structure : c \in TwiceConfigs}
        \cup {[DefaultStructure EXCEPT !.length = len] : len \in ParkingLengths}

CarsUsed == CarConfigs \cup AnyCarConfigs \cup {c.parking.car : c \in TwiceConfigs}
                \cup {DefaultParking.car}

CoachesUsed == CoachConfigs \cup AnyCoachConfigs \cup {DefaultParking.coach}

LengthsUsed == {s.length : s \in StructuresUsed}

\* the three counts on those configurations, computed once
ColCountTable ==
    {<< p, ColCountOf(p[1], p[2]) >> :
        p \in {<< s.length, s.columnSpacing >> : s \in StructuresUsed}}

NumBaysTable ==
    {<< p, NumBaysOf(p[1], p[2][1], p[2][2]) >> :
        p \in LengthsUsed \X {<< c.width, c.angle >> : c \in CarsUsed}}

NumCoachBaysTable ==
    {<< p, NumCoachBaysOf(p[1], p[2][1], p[2][2]) >> :
        p \in LengthsUsed \X {<< c.width, c.angle >> : c \in CoachesUsed}}

\* the entry of a table for the operands p, none when the table has no entry
Entry(table, p) == {t \in table : t[1] = p}

\* ------------------------------------------------------------------------
\* State
\* ------------------------------------------------------------------------
VARIABLES
    CONFIG,       \* the configuration object
    offsetX,      \* createStructure: argument
    pc,           \* createStructure: position in the function
    i,            \* createStructure: column loop index
    group,        \* createStructure: meshes added to the group, in order
    groupPosition,\* createStructure: group.position once set
    solarInst,    \* createStructure: the InstancedMesh (count, matrices)
    pIdx,         \* createStructure: next instance index
    row,          \* createStructure: panel loop row
    col,          \* createStructure: panel loop column
    panelLocals   \* createStructure: xOffset, zOffset, vec of every panel iteration

VARIABLES
    parkingPc,    \* generateParking: position in the function
    iCar,         \* generateParking: index of the car bay loop
    iCoach,       \* generateParking: index of the coach bay loop
    parkingGroup, \* generateParking: meshes added to the group, in order
    bayLocals,    \* generateParking: z and the occupancy draws of every bay iteration
    randomTape,   \* the values Math.random() returned during this invocation
    invocation,   \* which call of generateParking is running
    firstGroup,   \* the group the first call returned
    firstTape     \* the values Math.random() returned during the first call

structureVars == << offsetX, pc, i, group, groupPosition, solarInst, pIdx,
                    row, col, panelLocals >>

parkingVars == << parkingPc, iCar, iCoach, parkingGroup, bayLocals, randomTape,
                  invocation, firstGroup, firstTape >>

vars == << CONFIG, structureVars, parkingVars >>

\* ------------------------------------------------------------------------
\* createStructure: derived dimensions
\* ------------------------------------------------------------------------
halfSpan == Div(CONFIG.structure.width, 2)

height == CONFIG.structure.eavesHeight

rise == CONFIG.structure.ridgeHeight - height

pitchRad == Atan(Div(rise * TrigScale, halfSpan))

slopeLen == Sqrt(rise * rise + halfSpan * halfSpan)

rafterOverhang == 500

rafterLen == slopeLen + rafterOverhang


\* Math.ceil(length / columnSpacing) + 1 on doubles (line 201)
colCount ==
    LET p == << CONFIG.structure.length, CONFIG.structure.columnSpacing >>
        e == Entry(ColCountTable, p)
    IN IF e # {} THEN (CHOOSE t \in e : TRUE)[2] ELSE ColCountOf(p[1], p[2])


\* ColumnZ with the tick held inside the structure length
ColumnZClamped(k) ==
    LET z == (k * CONFIG.structure.columnSpacing) - Div(CONFIG.structure.length, 2)
    IN IF z > Div(CONFIG.structure.length, 2) THEN Div(CONFIG.structure.length, 2) ELSE z

ColumnZ(k) == (k * CONFIG.structure.columnSpacing) - Div(CONFIG.structure.length, 2)

Mesh(name, position, rotation) ==
    [name |-> name, position |-> position, rotation |-> rotation]

colL(z) == Mesh("colL", << -Div(CONFIG.structure.width, 2), Div(height, 2), z >>, NoRotation)


\* colR standing on the ground line instead of centred on half its height
colRFullHeight(z) ==
    [name |-> "colR", position |-> << Div(CONFIG.structure.width, 2), height, z >>,
     rotation |-> NoRotation]

colR(z) == Mesh("colR", << Div(CONFIG.structure.width, 2), Div(height, 2), z >>, NoRotation)

rafterL(z) ==
    Mesh("rafterL", << -Div(halfSpan, 2), height + Div(rise, 2), z >>,
         << ZeroAngle, ZeroAngle, pitchRad >>)

rafterR(z) ==
    Mesh("rafterR", << Div(halfSpan, 2), height + Div(rise, 2), z >>,
         << ZeroAngle, ZeroAngle, Neg(pitchRad) >>)

roofSheetLift == 150

roofL ==
    Mesh("roofL", << -Div(halfSpan, 2), height + Div(rise, 2) + roofSheetLift, 0 >>,
         << ZeroAngle, ZeroAngle, pitchRad >>)


\* roofR pitched the same way as the left sheet
roofRUnmirrored ==
    Mesh("roofR", << Div(halfSpan, 2), height + Div(rise, 2) + roofSheetLift, 0 >>,
         << ZeroAngle, ZeroAngle, pitchRad >>)

roofR ==
    Mesh("roofR", << Div(halfSpan, 2), height + Div(rise, 2) + roofSheetLift, 0 >>,
         << ZeroAngle, ZeroAngle, Neg(pitchRad) >>)

\* ------------------------------------------------------------------------
\* createStructure: solar panels
\* ------------------------------------------------------------------------

\* totalPanels sized for one slope only
totalPanelsOneSlope == CONFIG.solar.panelsPerRow * CONFIG.solar.rowsPerSlope

totalPanels == CONFIG.solar.panelsPerRow * CONFIG.solar.rowsPerSlope * 2

\* new THREE.InstancedMesh(geo, mat, count): count instance slots, none written
InstancedMesh(count) == [count |-> count, matrices |-> << >>]

\* InstancedMesh.setMatrixAt: a write outside the instance buffer is dropped
SetMatrixAt(inst, idx, matrix) ==
    IF idx >= 0 /\ idx < inst.count
    THEN [inst EXCEPT !.matrices = (idx :> matrix) @@ @]
    ELSE inst

panelStandoff == 200

panelLift == 50

overhangFix == 200

\* left slope
cxLeft == -Div(halfSpan, 2)


\* cyLeft on the rafter centre line, without the standoff
cyLeftNoStandoff == height + Div(rise, 2)

cyLeft == height + Div(rise, 2) + panelStandoff

xOffsetLeft(r) ==
    (r * (CONFIG.solar.length + CONFIG.solar.gapY))
        - Div(CONFIG.solar.rowsPerSlope * CONFIG.solar.length, 2)
        + Div(CONFIG.solar.length, 2)

zOffsetLeft(c) ==
    (c * (CONFIG.solar.width + CONFIG.solar.gapX))
        - Div(CONFIG.solar.panelsPerRow * CONFIG.solar.width, 2)

vecLeft(r, c) == << xOffsetLeft(r), panelLift, zOffsetLeft(c) >>

LeftPanelMatrix(r, c) ==
    LET vec == ApplyAxisAngleZ(vecLeft(r, c), pitchRad)
    IN [position |-> << cxLeft + vec[1], cyLeft + vec[2], 0 + vec[3] >>,
        rotation |-> << ZeroAngle, ZeroAngle, pitchRad >>]

\* right slope
cxRight == Div(halfSpan, 2)

cyRight == height + Div(rise, 2) + panelStandoff

pitchRadR == Neg(pitchRad)

xOffsetRight(r) ==
    (r * (CONFIG.solar.length + CONFIG.solar.gapY))
        - Div(CONFIG.solar.rowsPerSlope * CONFIG.solar.length, 2)
        + Div(CONFIG.solar.length, 2)

zOffsetRight(c) ==
    (c * (CONFIG.solar.width + CONFIG.solar.gapX))
        - Div(CONFIG.solar.panelsPerRow * CONFIG.solar.width, 2)


\* vecRight without the mirrored along-slope offset
vecRightUnmirrored(r, c) == << xOffsetRight(r), panelLift, zOffsetRight(c) >>

vecRight(r, c) == << -xOffsetRight(r), panelLift, zOffsetRight(c) >>

cxFix == cxRight + Div(Cos(pitchRadR) * overhangFix, TrigScale)


\* cyFix with the correction taken up the slope
cyFixRaised == cyRight + Div(Sin(AbsAngle(pitchRadR)) * overhangFix, TrigScale)

cyFix == cyRight - Div(Sin(AbsAngle(pitchRadR)) * overhangFix, TrigScale)

RightPanelMatrix(r, c) ==
    LET vec == ApplyAxisAngleZ(vecRight(r, c), pitchRadR)
    IN [position |-> << cxFix + vec[1], cyFix + vec[2], 0 + vec[3] >>,
        rotation |-> << ZeroAngle, ZeroAngle, pitchRadR >>]

\* ------------------------------------------------------------------------
\* createStructure: the steps of the function
\* ------------------------------------------------------------------------

\* ColumnTick with the roof sheets built inside the loop body
ColumnTickRoofPerTick ==
    /\ pc = "columns"
    /\ i < colCount
    /\ LET z == ColumnZ(i)
       IN group' = group \o << colL(z), colR(z), rafterL(z), rafterR(z), roofL, roofR >>
    /\ i' = i + 1
    /\ UNCHANGED parkingVars
    /\ UNCHANGED << CONFIG, offsetX, pc, groupPosition, solarInst, pIdx, row, col,
                    panelLocals >>

\* one pass of the column loop (lines 205-237)
ColumnTick ==
    /\ pc = "columns"
    /\ i < colCount
    /\ LET z == ColumnZ(i)
       IN group' = group \o << colL(z), colR(z), rafterL(z), rafterR(z) >>
    /\ i' = i + 1
    /\ UNCHANGED parkingVars
    /\ UNCHANGED << CONFIG, offsetX, pc, groupPosition, solarInst, pIdx, row, col,
                    panelLocals >>

\* the column loop ends; roof sheets, then the instanced mesh is allocated
\* (lines 239-304)
RoofSheet ==
    /\ pc = "columns"
    /\ ~(i < colCount)
    /\ group' = group \o << roofL, roofR >>
    /\ solarInst' = InstancedMesh(totalPanels)
    /\ pIdx' = 0
    /\ row' = 0
    /\ col' = 0
    /\ pc' = "left"
    /\ UNCHANGED parkingVars
    /\ UNCHANGED << CONFIG, offsetX, i, groupPosition, panelLocals >>

\* the loop variables after one pass of the inner loop body
NextRow(r, c) == IF c + 1 < CONFIG.solar.panelsPerRow THEN r ELSE r + 1

NextCol(r, c) == IF c + 1 < CONFIG.solar.panelsPerRow THEN c + 1 ELSE 0

\* one pass of the left slope loop body (lines 307-337)
LeftPanel ==
    /\ pc = "left"
    /\ row < CONFIG.solar.rowsPerSlope
    /\ col < CONFIG.solar.panelsPerRow
    /\ solarInst' = SetMatrixAt(solarInst, pIdx, LeftPanelMatrix(row, col))
    /\ panelLocals' = Append(panelLocals,
            [slope |-> "left", row |-> row, col |-> col, pIdx |-> pIdx,
             xOffset |-> xOffsetLeft(row), zOffset |-> zOffsetLeft(col),
             vec |-> vecLeft(row, col), cx |-> cxLeft, cy |-> cyLeft, cz |-> 0])
    /\ pIdx' = pIdx + 1
    /\ row' = NextRow(row, col)
    /\ col' = NextCol(row, col)
    /\ UNCHANGED parkingVars
    /\ UNCHANGED << CONFIG, offsetX, pc, i, group, groupPosition >>


\* LeftDone with the instance index restarted for the right slope
LeftDoneIndexRestarted ==
    /\ pc = "left"
    /\ ~(row < CONFIG.solar.rowsPerSlope /\ col < CONFIG.solar.panelsPerRow)
    /\ pc' = "right"
    /\ row' = 0
    /\ col' = 0
    /\ pIdx' = 0
    /\ UNCHANGED parkingVars
    /\ UNCHANGED << CONFIG, offsetX, i, group, groupPosition, solarInst, panelLocals >>

\* the left slope loop ends
LeftDone ==
    /\ pc = "left"
    /\ ~(row < CONFIG.solar.rowsPerSlope /\ col < CONFIG.solar.panelsPerRow)
    /\ pc' = "right"
    /\ row' = 0
    /\ col' = 0
    /\ UNCHANGED parkingVars
    /\ UNCHANGED << CONFIG, offsetX, i, group, groupPosition, solarInst, pIdx,
                    panelLocals >>

\* one pass of the right slope loop body (lines 340-379)
RightPanel ==
    /\ pc = "right"
    /\ row < CONFIG.solar.rowsPerSlope
    /\ col < CONFIG.solar.panelsPerRow
    /\ solarInst' = SetMatrixAt(solarInst, pIdx, RightPanelMatrix(row, col))
    /\ panelLocals' = Append(panelLocals,
            [slope |-> "right", row |-> row, col |-> col, pIdx |-> pIdx,
             xOffset |-> xOffsetRight(row), zOffset |-> zOffsetRight(col),
             vec |-> vecRight(row, col), cx |-> cxRight, cy |-> cyRight, cz |-> 0])
    /\ pIdx' = pIdx + 1
    /\ row' = NextRow(row, col)
    /\ col' = NextCol(row, col)
    /\ UNCHANGED parkingVars
    /\ UNCHANGED << CONFIG, offsetX, pc, i, group, groupPosition >>

\* the right slope loop ends; the instanced mesh joins the group, the group
\* is moved and returned (lines 381-384)
RightDone ==
    /\ pc = "right"
    /\ ~(row < CONFIG.solar.rowsPerSlope /\ col < CONFIG.solar.panelsPerRow)
    /\ group' = Append(group, Mesh("solarInst", << 0, 0, 0 >>, NoRotation))
    /\ groupPosition' = << offsetX, 0, 0 >>
    /\ pc' = "done"
    /\ UNCHANGED parkingVars
    /\ UNCHANGED << CONFIG, offsetX, i, solarInst, pIdx, row, col, panelLocals >>

\* ------------------------------------------------------------------------
\* generateParking: angles
\* ------------------------------------------------------------------------
\* sine of a whole number of degrees, in 1/TrigScale
SinDeg == (0 :> 0) @@ (30 :> 5000) @@ (45 :> 7071) @@ (60 :> 8660) @@ (90 :> 10000)

\* degrees * (Math.PI / 180)
Radians(deg) == [sin |-> SinDeg[deg], cos |-> SinDeg[90 - deg]]

\* Math.PI / 4
PiOver4 == [sin |-> 7071, cos |-> 7071]

\* ------------------------------------------------------------------------
\* generateParking: car port geometry (lines 488-505)
\* ------------------------------------------------------------------------
bayW == CONFIG.parking.car.width

bayL == CONFIG.parking.car.length

angleRad == Radians(CONFIG.parking.car.angle)

\* zSpacing in millimetres, for positions
zSpacing == Div(bayW * TrigScale, Sin(angleRad))

\* Math.floor(length / zSpacing) - 1 on doubles (line 504)
numBays ==
    LET p == << CONFIG.structure.length, << bayW, CONFIG.parking.car.angle >> >>
        e == Entry(NumBaysTable, p)
    IN IF e # {} THEN (CHOOSE t \in e : TRUE)[2]
       ELSE NumBaysOf(p[1], p[2][1], p[2][2])

startZ == -Div(CONFIG.structure.length, 2) + 2000

port1Center == -6000

carAisleHalf == 1500

aisleX_L == port1Center - carAisleHalf

aisleX_R == port1Center + carAisleHalf

rotL == PiOver4

rotR == Neg(PiOver4)

carDist == 2400

carThreshold == 300

\* createBoxLine(x, z, len, rotY), tagged with the bay it is drawn for
BoxLine(name, bay, x, z, len, rotY) ==
    [name |-> name, bay |-> bay, position |-> << x, 20, z >>,
     rotation |-> << ZeroAngle, rotY, ZeroAngle >>, len |-> len, color |-> 0]

\* a vehicle model placed by position.set and rotation.y
Vehicle(name, bay, x, z, rotY, color) ==
    [name |-> name, bay |-> bay, position |-> << x, 20, z >>,
     rotation |-> << ZeroAngle, rotY, ZeroAngle >>, len |-> 0, color |-> color]

\* colors[Math.floor(Math.random() * colors.length)].color
ChosenColor(colors, r) == colors[Div(r * Len(colors), RngScale) + 1]

CarBayZ(k) == startZ + (k * zSpacing)

lLine(k) ==
    LET z == CarBayZ(k)
        lineLen == bayL
    IN BoxLine("lLine", k,
               aisleX_L - Div(Sin(rotL) * lineLen, 2 * TrigScale),
               z + Div(Cos(rotL) * lineLen, 2 * TrigScale),
               lineLen, rotL)

rLine(k) ==
    LET z == CarBayZ(k)
        lineLen == bayL
    IN BoxLine("rLine", k,
               aisleX_R + Div(Sin(AbsAngle(rotR)) * lineLen, 2 * TrigScale),
               z + Div(Cos(AbsAngle(rotR)) * lineLen, 2 * TrigScale),
               lineLen, rotR)

carLeft(k, r) ==
    LET z == CarBayZ(k)
        carZ == z + Div(zSpacing, 2)
        xL == aisleX_L - Div(Sin(rotL) * carDist, TrigScale)
        zL == carZ + Div(Cos(rotL) * carDist, TrigScale)
    IN Vehicle("carL", k, xL, zL, PlusPi(rotL), ChosenColor(CONFIG.parking.car.colors, r))

carRight(k, r) ==
    LET z == CarBayZ(k)
        carZ == z + Div(zSpacing, 2)
        xR == aisleX_R + Div(Sin(AbsAngle(rotR)) * carDist, TrigScale)
        zR == carZ + Div(Cos(AbsAngle(rotR)) * carDist, TrigScale)
    IN Vehicle("carR", k, xR, zR, PlusPi(rotR), ChosenColor(CONFIG.parking.car.colors, r))

\* the tests Math.random() > 0.3 of the two rows
LeftOccupied(dL, dR) == dL > carThreshold


\* RightOccupied deciding on the draw of the left row
RightOccupiedSameDraw(dL, dR) == dL > carThreshold

RightOccupied(dL, dR) == dR > carThreshold

\* ------------------------------------------------------------------------
\* generateParking: coach port geometry (lines 670-681)
\* ------------------------------------------------------------------------
coachW == CONFIG.parking.coach.width

coachL == CONFIG.parking.coach.length

coachAngle == Radians(CONFIG.parking.coach.angle)

\* coachZSpacing in millimetres, for positions
coachZSpacing == Div(coachW * TrigScale, Sin(coachAngle))

\* Math.floor((length - 10) / coachZSpacing) on doubles (line 678)
numCoachBays ==
    LET p == << CONFIG.structure.length, << coachW, CONFIG.parking.coach.angle >> >>
        e == Entry(NumCoachBaysTable, p)
    IN IF e # {} THEN (CHOOSE t \in e : TRUE)[2]
       ELSE NumCoachBaysOf(p[1], p[2][1], p[2][2])

coachStartZ == -Div(CONFIG.structure.length, 2) + 10000

port2Center == 6000

coachAisleShift == 3000

coachThreshold == 400

CoachBayZ(k) == coachStartZ + (k * coachZSpacing)

coachLine(k) ==
    LET z == CoachBayZ(k)
        aisleX == port2Center - coachAisleShift
        lineLen == coachL
        rot == Neg(coachAngle)
    IN BoxLine("coachLine", k,
               aisleX + Div(Sin(AbsAngle(rot)) * lineLen, 2 * TrigScale),
               z + Div(Cos(AbsAngle(rot)) * lineLen, 2 * TrigScale),
               lineLen, rot)

coach(k, r) ==
    LET z == CoachBayZ(k)
        aisleX == port2Center - coachAisleShift
        lineLen == coachL
        rot == Neg(coachAngle)
        centerX == aisleX + Div(Sin(AbsAngle(rot)) * lineLen, 2 * TrigScale)
                          + Div(Cos(AbsAngle(rot)) * coachW, 2 * TrigScale)
        centerZ == z + Div(Cos(AbsAngle(rot)) * lineLen, 2 * TrigScale)
                     - Div(Sin(AbsAngle(rot)) * coachW, 2 * TrigScale)
    IN Vehicle("coach", k, centerX, centerZ, PlusPi(rot),
               ChosenColor(CONFIG.parking.coach.colors, r))

CoachOccupied(d) == d > coachThreshold

\* ------------------------------------------------------------------------
\* generateParking: the steps of the function
\* ------------------------------------------------------------------------
\* values Math.random() may return, in 1/RngScale
RngValues == {300, 400, 900}


\* const group = new THREE.Group()
NewGroup == << >>

\* the call: a fresh group, nothing drawn yet (lines 478-479)
EnterParking ==
    /\ parkingPc = "start"
    /\ parkingGroup' = NewGroup
    /\ bayLocals' = << >>
    /\ randomTape' = << >>
    /\ iCar' = 0
    /\ iCoach' = 0
    /\ parkingPc' = "car"
    /\ UNCHANGED << invocation, firstGroup, firstTape >>
    /\ UNCHANGED << CONFIG, structureVars >>


\* CarBay with the car colour taken without a draw of its own
CarBayNoColourDraw ==
    /\ parkingPc = "car"
    /\ iCar < numBays
    /\ \E dL \in RngValues, cL \in RngValues, dR \in RngValues, cR \in RngValues :
         LET left == IF LeftOccupied(dL, dR) THEN << carLeft(iCar, cL) >> ELSE << >>
             right == IF RightOccupied(dL, dR) THEN << carRight(iCar, cR) >> ELSE << >>
             drawsL == << dL >>
             drawsR == << dR >>
         IN /\ parkingGroup' = parkingGroup \o << lLine(iCar), rLine(iCar) >> \o left \o right
            /\ randomTape' = randomTape \o drawsL \o drawsR
            /\ bayLocals' = Append(bayLocals,
                   [class |-> "car", i |-> iCar, z |-> CarBayZ(iCar),
                    draws |-> << dL, dR >>,
                    at |-> << Len(randomTape) + 1, Len(randomTape) + Len(drawsL) + 1 >>])
    /\ iCar' = iCar + 1
    /\ UNCHANGED << parkingPc, iCoach, invocation, firstGroup, firstTape >>
    /\ UNCHANGED << CONFIG, structureVars >>

\* one pass of the car bay loop (lines 556-666): both dividers, then one
\* draw per row and a colour draw for every car placed
CarBay ==
    /\ parkingPc = "car"
    /\ iCar < numBays
    /\ \E dL \in RngValues, cL \in RngValues, dR \in RngValues, cR \in RngValues :
         LET left == IF LeftOccupied(dL, dR) THEN << carLeft(iCar, cL) >> ELSE << >>
             right == IF RightOccupied(dL, dR) THEN << carRight(iCar, cR) >> ELSE << >>
             drawsL == IF LeftOccupied(dL, dR) THEN << dL, cL >> ELSE << dL >>
             drawsR == IF RightOccupied(dL, dR) THEN << dR, cR >> ELSE << dR >>
         IN /\ parkingGroup' = parkingGroup \o << lLine(iCar), rLine(iCar) >> \o left \o right
            /\ randomTape' = randomTape \o drawsL \o drawsR
            /\ bayLocals' = Append(bayLocals,
                   [class |-> "car", i |-> iCar, z |-> CarBayZ(iCar),
                    draws |-> << dL, dR >>,
                    at |-> << Len(randomTape) + 1, Len(randomTape) + Len(drawsL) + 1 >>])
    /\ iCar' = iCar + 1
    /\ UNCHANGED << parkingPc, iCoach, invocation, firstGroup, firstTape >>
    /\ UNCHANGED << CONFIG, structureVars >>

\* the car bay loop ends
CarDone ==
    /\ parkingPc = "car"
    /\ ~(iCar < numBays)
    /\ parkingPc' = "coach"
    /\ UNCHANGED << iCar, iCoach, parkingGroup, bayLocals, randomTape, invocation,
                    firstGroup, firstTape >>
    /\ UNCHANGED << CONFIG, structureVars >>

\* one pass of the coach bay loop (lines 691-725)
CoachBay ==
    /\ parkingPc = "coach"
    /\ iCoach < numCoachBays
    /\ \E d \in RngValues, c \in RngValues :
         LET placed == IF CoachOccupied(d) THEN << coach(iCoach, c) >> ELSE << >>
             draws == IF CoachOccupied(d) THEN << d, c >> ELSE << d >>
         IN /\ parkingGroup' = parkingGroup \o << coachLine(iCoach) >> \o placed
            /\ randomTape' = randomTape \o draws
            /\ bayLocals' = Append(bayLocals,
                   [class |-> "coach", i |-> iCoach, z |-> CoachBayZ(iCoach),
                    draws |-> << d >>, at |-> << Len(randomTape) + 1 >>])
    /\ iCoach' = iCoach + 1
    /\ UNCHANGED << parkingPc, iCar, invocation, firstGroup, firstTape >>
    /\ UNCHANGED << CONFIG, structureVars >>

\* the coach bay loop ends; the group is returned (line 727)
CoachDone ==
    /\ parkingPc = "coach"
    /\ ~(iCoach < numCoachBays)
    /\ parkingPc' = "done"
    /\ UNCHANGED << iCar, iCoach, parkingGroup, bayLocals, randomTape, invocation,
                    firstGroup, firstTape >>
    /\ UNCHANGED << CONFIG, structureVars >>

\* generateParking is called again: the first result is kept for comparison
CallAgain ==
    /\ parkingPc = "done"
    /\ invocation = 1
    /\ firstGroup' = parkingGroup
    /\ firstTape' = randomTape
    /\ invocation' = 2
    /\ parkingPc' = "start"
    /\ UNCHANGED << iCar, iCoach, parkingGroup, bayLocals, randomTape >>
    /\ UNCHANGED << CONFIG, structureVars >>

\* bays the two loops of generateParking lay out
BaysLaidOut ==
    (IF numBays > 0 THEN numBays ELSE 0) + (IF numCoachBays > 0 THEN numCoachBays ELSE 0)

StructureIdle ==
    /\ offsetX = 0
    /\ pc = "idle"
    /\ i = 0
    /\ group = << >>
    /\ groupPosition = << 0, 0, 0 >>
    /\ solarInst = InstancedMesh(0)
    /\ pIdx = 0
    /\ row = 0
    /\ col = 0
    /\ panelLocals = << >>

ParkingIdle ==
    /\ parkingPc = "idle"
    /\ iCar = 0
    /\ iCoach = 0
    /\ parkingGroup = << >>
    /\ bayLocals = << >>
    /\ randomTape = << >>
    /\ invocation = 1
    /\ firstGroup = << >>
    /\ firstTape = << >>

\* ------------------------------------------------------------------------
\* createStructure(offsetX, 0) on every structure and solar configuration
\* ------------------------------------------------------------------------
InitStructure ==
    /\ CONFIG \in {[structure |-> s, solar |-> p, parking |-> DefaultParking] :
                      s \in StructureConfigs, p \in SolarConfigs}
    /\ offsetX \in {-6000, 6000}
    /\ pc = "columns"
    /\ i = 0
    /\ group = << >>
    /\ groupPosition = << 0, 0, 0 >>
    /\ solarInst = InstancedMesh(0)
    /\ pIdx = 0
    /\ row = 0
    /\ col = 0
    /\ panelLocals = << >>
    /\ ParkingIdle

NextStructure ==
    \/ ColumnTick
    \/ RoofSheet
    \/ LeftPanel
    \/ LeftDone
    \/ RightPanel
    \/ RightDone

SpecStructure == InitStructure /\ [][NextStructure]_vars

\* ------------------------------------------------------------------------
\* generateParking() on every parking configuration of at most MaxBays bays
\* ------------------------------------------------------------------------
InitParking ==
    /\ CONFIG \in {[structure |-> [DefaultStructure EXCEPT !.length = len],
                    solar |-> DefaultSolar,
                    parking |-> [car |-> c, coach |-> k]] :
                      len \in ParkingLengths, c \in CarConfigs, k \in CoachConfigs}
    /\ BaysLaidOut <= MaxBays
    /\ StructureIdle
    /\ parkingPc = "start"
    /\ iCar = 0
    /\ iCoach = 0
    /\ parkingGroup = << >>
    /\ bayLocals = << >>
    /\ randomTape = << >>
    /\ invocation = 1
    /\ firstGroup = << >>
    /\ firstTape = << >>

NextParking ==
    \/ EnterParking
    \/ CarBay
    \/ CarDone
    \/ CoachBay
    \/ CoachDone

SpecParking == InitParking /\ [][NextParking]_vars

\* ------------------------------------------------------------------------
\* generateParking() called twice on the same configuration
\* ------------------------------------------------------------------------
InitTwice ==
    /\ CONFIG \in TwiceConfigs
    /\ BaysLaidOut <= MaxBays
    /\ StructureIdle
    /\ parkingPc = "start"
    /\ iCar = 0
    /\ iCoach = 0
    /\ parkingGroup = << >>
    /\ bayLocals = << >>
    /\ randomTape = << >>
    /\ invocation = 1
    /\ firstGroup = << >>
    /\ firstTape = << >>

NextTwice ==
    \/ EnterParking
    \/ CarBay
    \/ CarDone
    \/ CoachBay
    \/ CoachDone
    \/ CallAgain

SpecTwice == InitTwice /\ [][NextTwice]_vars

\* ------------------------------------------------------------------------
\* Properties of createStructure
\* ------------------------------------------------------------------------
Indices(seq, name) == {k \in 1 .. Len(seq) : seq[k].name = name}

Count(seq, name) == Cardinality(Indices(seq, name))

ColumnLoopOver == pc \in {"left", "right", "done"}

\* C1: once the column loop has ended the group holds n left columns and n
\* right columns, where n - 1 is the least whole number of columnSpacing
\* steps that covers length, that is n = ceil(length / columnSpacing) + 1
\* with the quotient taken exactly.
C1_ColumnCount ==
    ColumnLoopOver =>
        LET n == Count(group, "colL")
            length == CONFIG.structure.length
            spacing == CONFIG.structure.columnSpacing
        IN /\ Count(group, "colR") = n
           /\ (n - 1) * spacing >= length
           /\ (n - 2) * spacing < length

\* C2: the four meshes of column tick k (columns and rafters) all lie at
\* z = k * columnSpacing - length / 2, and when length is not a multiple of
\* columnSpacing the last tick lies beyond +length / 2.
C2_ColumnTickZ ==
    /\ \A j \in 1 .. Len(group) :
          group[j].name \in {"colL", "colR", "rafterL", "rafterR"} =>
              2 * group[j].position[3]
                  = 2 * ((j - 1) \div 4) * CONFIG.structure.columnSpacing
                      - CONFIG.structure.length
    /\ (ColumnLoopOver
          /\ CONFIG.structure.length % CONFIG.structure.columnSpacing # 0) =>
              \E j \in Indices(group, "colL") :
                  2 * group[j].position[3] > CONFIG.structure.length

C2_Witness ==
    /\ pc = "done"
    /\ CONFIG.structure.length = 10000
    /\ CONFIG.structure.columnSpacing = 4000
    /\ \E j \in Indices(group, "colR") : group[j].position[3] = 7000

\* C3: every left column stands at x = -width / 2 and has a right column at
\* x = +width / 2 with the same y and z, and every right column has such a
\* left column.
C3_ColumnSymmetry ==
    /\ \A j \in Indices(group, "colL") :
          /\ 2 * group[j].position[1] = -CONFIG.structure.width
          /\ \E k \in Indices(group, "colR") :
                /\ 2 * group[k].position[1] = CONFIG.structure.width
                /\ group[k].position[2] = group[j].position[2]
                /\ group[k].position[3] = group[j].position[3]
    /\ \A k \in Indices(group, "colR") :
          /\ 2 * group[k].position[1] = CONFIG.structure.width
          /\ \E j \in Indices(group, "colL") :
                /\ 2 * group[j].position[1] = -CONFIG.structure.width
                /\ group[j].position[2] = group[k].position[2]
                /\ group[j].position[3] = group[k].position[3]

C3_Witness ==
    /\ pc = "done"
    /\ Count(group, "colL") = 3
    /\ Count(group, "colR") = 3
    /\ CONFIG.structure.width = 8000

\* C4: when createStructure returns, the instanced mesh has
\* rowsPerSlope * panelsPerRow * 2 instances and every one of them has been
\* written, whatever the panel size and the gaps.
C4_PanelCount ==
    pc = "done" =>
        LET n == CONFIG.solar.rowsPerSlope * CONFIG.solar.panelsPerRow * 2
        IN /\ solarInst.count = n
           /\ DOMAIN solarInst.matrices = 0 .. (n - 1)
           /\ Len(panelLocals) = n

C4_Witness ==
    /\ pc = "done"
    /\ CONFIG.solar.rowsPerSlope = 2
    /\ CONFIG.solar.panelsPerRow = 2
    /\ CONFIG.solar.gapX = 30
    /\ CONFIG.solar.length = 2000
    /\ DOMAIN solarInst.matrices = 0 .. 7

\* ------------------------------------------------------------------------
\* Properties of the solar panel loops
\* ------------------------------------------------------------------------
Entries(slope) == {k \in 1 .. Len(panelLocals) : panelLocals[k].slope = slope}

RECURSIVE SumX(_)
SumX(S) ==
    IF S = {} THEN 0
    ELSE LET k == CHOOSE k \in S : TRUE
         IN panelLocals[k].xOffset + SumX(S \ {k})

RECURSIVE SumZ(_)
SumZ(S) ==
    IF S = {} THEN 0
    ELSE LET k == CHOOSE k \in S : TRUE
         IN panelLocals[k].zOffset + SumZ(S \ {k})

\* C5: for each slope with at least one row and one panel per row, the
\* xOffset values of all its panels sum to 0 and the zOffset values sum to
\* 0, that is both means are 0.
C5_OffsetsCentred ==
    (pc = "done" /\ CONFIG.solar.rowsPerSlope >= 1 /\ CONFIG.solar.panelsPerRow >= 1) =>
        \A slope \in {"left", "right"} :
            /\ SumX(Entries(slope)) = 0
            /\ SumZ(Entries(slope)) = 0

\* C6: a right slope panel sits at the right slope anchor moved by
\* (cos(pitch) * overhangFix, -sin(pitch) * overhangFix, 0) plus its offset
\* vector turned by -pitch; a left slope panel sits at the left slope anchor
\* plus its offset vector turned by +pitch, with no such move.
C6_OverhangFix ==
    \A k \in 1 .. Len(panelLocals) :
        LET e == panelLocals[k]
            pitch == Atan(Div((CONFIG.structure.ridgeHeight - CONFIG.structure.eavesHeight)
                                 * TrigScale,
                              Div(CONFIG.structure.width, 2)))
            anchorY == CONFIG.structure.eavesHeight
                         + Div(CONFIG.structure.ridgeHeight - CONFIG.structure.eavesHeight, 2)
                         + 200
            anchorX == Div(Div(CONFIG.structure.width, 2), 2)
            dx == Div(Cos(pitch) * 200, TrigScale)
            dy == -Div(Sin(pitch) * 200, TrigScale)
            turnedL == ApplyAxisAngleZ(e.vec, pitch)
            turnedR == ApplyAxisAngleZ(e.vec, Neg(pitch))
        IN /\ e.pIdx \in DOMAIN solarInst.matrices
           /\ e.slope = "left" =>
                 solarInst.matrices[e.pIdx].position
                     = << -anchorX + turnedL[1], anchorY + turnedL[2], turnedL[3] >>
           /\ e.slope = "right" =>
                 solarInst.matrices[e.pIdx].position
                     = << anchorX + dx + turnedR[1], anchorY + dy + turnedR[2], turnedR[3] >>

C6_Witness ==
    /\ pc = "done"
    /\ CONFIG.structure.width = 8000
    /\ CONFIG.structure.ridgeHeight = 8000
    /\ CONFIG.solar.rowsPerSlope = 2
    /\ CONFIG.solar.panelsPerRow = 2
    /\ \E k \in Entries("right") :
          /\ panelLocals[k].row = 1
          /\ panelLocals[k].col = 1
          /\ solarInst.matrices[panelLocals[k].pIdx].position[1]
                = 2000 + 160 + ApplyAxisAngleZ(panelLocals[k].vec, pitchRadR)[1]
          /\ solarInst.matrices[panelLocals[k].pIdx].position[2]
                = 6700 - 120 + ApplyAxisAngleZ(panelLocals[k].vec, pitchRadR)[2]
    /\ \E k \in Entries("left") :
          solarInst.matrices[panelLocals[k].pIdx].position[1]
                = -2000 + ApplyAxisAngleZ(panelLocals[k].vec, pitchRad)[1]

\* C7: for every (row, col) the offset vector of the right slope panel is
\* that of the left slope panel with its first component negated, and the
\* two slopes have the same zOffset.
C7_MirroredOffset ==
    \A j \in Entries("left"), k \in Entries("right") :
        (panelLocals[j].row = panelLocals[k].row /\ panelLocals[j].col = panelLocals[k].col) =>
            /\ panelLocals[k].vec[1] = -panelLocals[j].vec[1]
            /\ panelLocals[k].vec[2] = panelLocals[j].vec[2]
            /\ panelLocals[k].vec[3] = panelLocals[j].vec[3]
            /\ panelLocals[k].zOffset = panelLocals[j].zOffset

C7_Witness ==
    /\ pc = "done"
    /\ CONFIG.solar.gapY = 50
    /\ \E j \in Entries("left"), k \in Entries("right") :
          /\ panelLocals[j].row = 1
          /\ panelLocals[k].row = 1
          /\ panelLocals[j].col = 1
          /\ panelLocals[k].col = 1
          /\ panelLocals[j].vec[1] > 0
          /\ panelLocals[k].vec[1] = -panelLocals[j].vec[1]
          /\ panelLocals[k].vec[3] # 0

\* ------------------------------------------------------------------------
\* Properties of generateParking
\* ------------------------------------------------------------------------
Bays(class) == {k \in 1 .. Len(bayLocals) : bayLocals[k].class = class}

InBay(name, bay) == {k \in Indices(parkingGroup, name) : parkingGroup[k].bay = bay}

Max0(n) == IF n > 0 THEN n ELSE 0

\* the pitch of the bays of a vehicle class along the aisle
BayPitch(class) == Div(class.width * TrigScale, Sin(Radians(class.angle)))

\* the dividers and vehicles of a group in order, each with its position and
\* its rotation
Layout(g) == [k \in 1 .. Len(g) |-> << g[k].name, g[k].position, g[k].rotation >>]

FloorDiv(a, b) == a \div b

\* C9, a count below zero read as no bay: the car loop lays out
\* max(0, floor(length / bayPitch) - 1) bays and the coach loop
\* max(0, floor((length - 10) / bayPitch) - 0) bays, with
\* bayPitch = width / sin(angleRad) and the quotients taken exactly; bay i of
\* a class is at z_i = startZ + i * bayPitch, startZ being -length/2 + 2 for
\* cars and -length/2 + 10 for coaches.
C9_BayCount ==
    /\ parkingPc = "done" =>
          /\ Count(parkingGroup, "lLine")
                = Max0(FloorDiv(CONFIG.structure.length, BayPitch(CONFIG.parking.car)) - 1)
          /\ Count(parkingGroup, "coachLine")
                = Max0(FloorDiv(CONFIG.structure.length - 10000,
                                BayPitch(CONFIG.parking.coach)) - 0)
          /\ Cardinality(Bays("car")) = Count(parkingGroup, "lLine")
          /\ Cardinality(Bays("coach")) = Count(parkingGroup, "coachLine")
    /\ \A k \in Bays("car") :
          2 * bayLocals[k].z
              = -CONFIG.structure.length + 4000
                  + 2 * bayLocals[k].i * BayPitch(CONFIG.parking.car)
    /\ \A k \in Bays("coach") :
          2 * bayLocals[k].z
              = -CONFIG.structure.length + 20000
                  + 2 * bayLocals[k].i * BayPitch(CONFIG.parking.coach)

\* C10: every car bay has its two dividers, a left car exactly when the left
\* row's own draw exceeds 1 - 0.7 and a right car exactly when the right
\* row's own draw does; every coach bay has its one divider and a coach
\* exactly when its draw exceeds 1 - 0.6.
C10_IndependentDraws ==
    /\ \A k \in Bays("car") :
          LET e == bayLocals[k]
          IN /\ Cardinality(InBay("lLine", e.i)) = 1
             /\ Cardinality(InBay("rLine", e.i)) = 1
             /\ Cardinality(InBay("carL", e.i))
                   = IF e.draws[1] > RngScale - 700 THEN 1 ELSE 0
             /\ Cardinality(InBay("carR", e.i))
                   = IF e.draws[2] > RngScale - 700 THEN 1 ELSE 0
    /\ \A k \in Bays("coach") :
          LET e == bayLocals[k]
          IN /\ Cardinality(InBay("coachLine", e.i)) = 1
             /\ Cardinality(InBay("coach", e.i))
                   = IF e.draws[1] > RngScale - 600 THEN 1 ELSE 0

C10_Witness ==
    /\ parkingPc = "done"
    /\ Cardinality(InBay("carL", 0)) = 1
    /\ Cardinality(InBay("carR", 0)) = 0
    /\ Cardinality(InBay("carL", 1)) = 0
    /\ Cardinality(InBay("carR", 1)) = 1
    /\ Cardinality(InBay("rLine", 1)) = 1

\* ------------------------------------------------------------------------
\* createStructure(offsetX, 0) on configurations outside the valid range:
\* the source reads CONFIG without checking it
\* ------------------------------------------------------------------------
InitStructureAny ==
    /\ CONFIG \in {[structure |-> s, solar |-> p, parking |-> DefaultParking] :
                      s \in AnyStructureConfigs, p \in AnySolarConfigs}
    /\ offsetX \in {-6000, 6000}
    /\ pc = "columns"
    /\ i = 0
    /\ group = << >>
    /\ groupPosition = << 0, 0, 0 >>
    /\ solarInst = InstancedMesh(0)
    /\ pIdx = 0
    /\ row = 0
    /\ col = 0
    /\ panelLocals = << >>
    /\ ParkingIdle

SpecStructureAny == InitStructureAny /\ [][NextStructure]_vars

\* ------------------------------------------------------------------------
\* generateParking() on configurations with a degenerate bay angle
\* ------------------------------------------------------------------------
InitParkingAny ==
    /\ CONFIG \in {[structure |-> [DefaultStructure EXCEPT !.length = len],
                    solar |-> DefaultSolar,
                    parking |-> [car |-> c, coach |-> k]] :
                      len \in {8000, 20000}, c \in AnyCarConfigs, k \in AnyCoachConfigs}
    /\ BaysLaidOut <= MaxBays
    /\ StructureIdle
    /\ parkingPc = "start"
    /\ iCar = 0
    /\ iCoach = 0
    /\ parkingGroup = << >>
    /\ bayLocals = << >>
    /\ randomTape = << >>
    /\ invocation = 1
    /\ firstGroup = << >>
    /\ firstTape = << >>

SpecParkingAny == InitParkingAny /\ [][NextParking]_vars

\* ------------------------------------------------------------------------
\* Properties of the handling of invalid configurations
\* ------------------------------------------------------------------------
DegenerateAngle(class) == class.angle \in {0, 90}

FrameInvalid ==
    \/ CONFIG.structure.width <= 0
    \/ CONFIG.structure.ridgeHeight <= CONFIG.structure.eavesHeight

ConfigInvalid ==
    \/ CONFIG.structure.length <= 0
    \/ CONFIG.structure.columnSpacing <= 0
    \/ FrameInvalid
    \/ DegenerateAngle(CONFIG.parking.car)
    \/ DegenerateAngle(CONFIG.parking.coach)
    \/ colCount < 2
    \/ numBays < 2
    \/ numCoachBays < 2

\* C11: with a car angle of 0 or 90 degrees generateParking draws no car
\* bay divider and does not return a group; likewise for the coach angle
\* and the coach bay dividers.
C11_DegenerateAngleRejected ==
    /\ DegenerateAngle(CONFIG.parking.car) =>
          /\ parkingPc # "done"
          /\ Count(parkingGroup, "lLine") = 0
          /\ Count(parkingGroup, "rLine") = 0
    /\ DegenerateAngle(CONFIG.parking.coach) =>
          /\ parkingPc # "done"
          /\ Count(parkingGroup, "coachLine") = 0

\* C12: with width <= 0 or ridgeHeight <= eavesHeight createStructure gets no
\* pitch to work with: it places no rafter and no roof sheet, writes no
\* panel and does not return a group.
C12_FrameRejected ==
    FrameInvalid =>
        /\ pc # "done"
        /\ Count(group, "rafterL") = 0
        /\ Count(group, "rafterR") = 0
        /\ Count(group, "roofL") = 0
        /\ Count(group, "roofR") = 0
        /\ DOMAIN solarInst.matrices = {}

\* C13: for an invalid configuration no instance at all is produced: the
\* group stays empty and no panel matrix is written.
C13_NoOutputWhenInvalid ==
    ConfigInvalid =>
        /\ group = << >>
        /\ DOMAIN solarInst.matrices = {}
        /\ parkingGroup = << >>

\* ------------------------------------------------------------------------
\* Column ticks and roof sheets
\* ------------------------------------------------------------------------
\* the meshes of the group other than the instanced solar mesh
NonSolar == {k \in 1 .. Len(group) : group[k].name # "solarInst"}

\* the names of the four meshes the k-th tick added (k from 0)
TickNames(k) == << group[4 * k + 1].name, group[4 * k + 2].name,
                   group[4 * k + 3].name, group[4 * k + 4].name >>

\* C14: every column tick adds exactly one left column, one right column, one
\* left rafter and one right rafter, in that order and nothing else; no roof
\* sheet exists while the column loop runs; once the loop is over the group
\* holds one left and one right roof sheet whatever colCount is, and
\* 4 * colCount + 2 meshes besides the solar mesh.
C14_TickOutput ==
    LET n == colCount
        ticks == IF pc = "columns" THEN i ELSE n
    IN /\ pc = "columns" => Len(group) = 4 * i
       /\ pc \in {"columns", "left", "right", "done"} =>
             \A k \in 0 .. ticks - 1 :
                 TickNames(k) = << "colL", "colR", "rafterL", "rafterR" >>
       /\ pc = "columns" => Count(group, "roofL") = 0 /\ Count(group, "roofR") = 0
       /\ ColumnLoopOver =>
             /\ Count(group, "colL") = n
             /\ Count(group, "colR") = n
             /\ Count(group, "rafterL") = n
             /\ Count(group, "rafterR") = n
             /\ Count(group, "roofL") = 1
             /\ Count(group, "roofR") = 1
             /\ Cardinality(NonSolar) = 4 * n + 2

\* a finished structure of four column ticks: 16 frame meshes and 2 roof sheets
C14_Witness ==
    /\ pc = "done"
    /\ CONFIG.structure.length = 12000
    /\ CONFIG.structure.columnSpacing = 4000
    /\ Cardinality(NonSolar) = 18
    /\ Count(group, "roofL") = 1
    /\ Count(group, "rafterR") = 4

\* ------------------------------------------------------------------------
\* Rotation of the sloped elements
\* ------------------------------------------------------------------------
\* atan(rise / halfSpan) of the configuration
ConfigPitch ==
    Atan(Div((CONFIG.structure.ridgeHeight - CONFIG.structure.eavesHeight) * TrigScale,
             Div(CONFIG.structure.width, 2)))

\* the panel matrices written for one slope
PanelMatrices(slope) ==
    {solarInst.matrices[panelLocals[k].pIdx] :
        k \in {e \in Entries(slope) : panelLocals[e].pIdx \in DOMAIN solarInst.matrices}}

\* C15: every left rafter, the left roof sheet and every left-slope panel are
\* rotated by +pitch about the z (length) axis, every right rafter, the right
\* roof sheet and every right-slope panel by -pitch, and the x and y rotation
\* components of all of them are zero.
C15_PitchSign ==
    /\ \A k \in 1 .. Len(group) :
          /\ group[k].name \in {"rafterL", "roofL"} =>
                 group[k].rotation = << ZeroAngle, ZeroAngle, ConfigPitch >>
          /\ group[k].name \in {"rafterR", "roofR"} =>
                 group[k].rotation = << ZeroAngle, ZeroAngle, Neg(ConfigPitch) >>
    /\ \A m \in PanelMatrices("left") :
          m.rotation = << ZeroAngle, ZeroAngle, ConfigPitch >>
    /\ \A m \in PanelMatrices("right") :
          m.rotation = << ZeroAngle, ZeroAngle, Neg(ConfigPitch) >>

\* a finished structure with a real pitch, both roof sheets and panels on
\* both slopes
C15_Witness ==
    /\ pc = "done"
    /\ CONFIG.structure.ridgeHeight = 8000
    /\ ConfigPitch.sin > 0
    /\ Count(group, "roofL") = 1
    /\ Count(group, "roofR") = 1
    /\ Cardinality(PanelMatrices("left")) >= 1
    /\ \E m \in PanelMatrices("right") : m.rotation[3].sin < 0

\* ------------------------------------------------------------------------
\* Slope anchor of the solar panels
\* ------------------------------------------------------------------------
\* the sign s of a slope: +1 for the left slope, -1 for the right slope
SlopeSign(slope) == IF slope = "left" THEN 1 ELSE -1

\* eavesHeight + rise/2 + panelStandoff of the configuration
AnchorY ==
    CONFIG.structure.eavesHeight
        + Div(CONFIG.structure.ridgeHeight - CONFIG.structure.eavesHeight, 2) + 200

\* C16 as stated: in every panel iteration cx = s * halfSpan/2 with s = +1 on
\* the left slope and -1 on the right, cy = eavesHeight + rise/2 +
\* panelStandoff, cz = 0, and the local offset vector is (xOff, 0, zOff).
C16_AnchorAsStated ==
    \A k \in 1 .. Len(panelLocals) :
        LET e == panelLocals[k]
        IN /\ e.cx = SlopeSign(e.slope) * Div(Div(CONFIG.structure.width, 2), 2)
           /\ e.cy = AnchorY
           /\ e.cz = 0
           /\ e.vec = << e.xOffset, 0, e.zOffset >>

\* C16: in every panel iteration cx = -s * halfSpan/2 (the left slope, s = +1,
\* is on the negative x side), cy = eavesHeight + rise/2 + panelStandoff,
\* cz = 0, and the local offset vector that is rotated onto the slope is
\* (s * xOff, 0.05, zOff): its second component is the 0.05 lift of the panel
\* off the roof sheet, and its first component is mirrored on the right slope.
C16_Anchor ==
    \A k \in 1 .. Len(panelLocals) :
        LET e == panelLocals[k]
        IN /\ e.cx = -SlopeSign(e.slope) * Div(Div(CONFIG.structure.width, 2), 2)
           /\ e.cy = AnchorY
           /\ e.cz = 0
           /\ e.vec = << SlopeSign(e.slope) * e.xOffset, 50, e.zOffset >>

\* panels placed on both slopes, with a nonzero along-slope offset on each
C16_Witness ==
    /\ pc = "done"
    /\ \E k \in Entries("left") : panelLocals[k].cx < 0 /\ panelLocals[k].xOffset # 0
    /\ \E k \in Entries("right") :
          /\ panelLocals[k].cx > 0
          /\ panelLocals[k].xOffset # 0
          /\ panelLocals[k].vec[2] = 50

\* ------------------------------------------------------------------------
\* Bay dividers and vehicles
\* ------------------------------------------------------------------------
Dividers == {"lLine", "rLine", "coachLine"}

\* the class configuration a parking mesh belongs to
ClassOf(name) ==
    IF name \in {"lLine", "rLine", "carL", "carR"}
    THEN CONFIG.parking.car ELSE CONFIG.parking.coach

\* the aisle-side pivot (aisleX, z_i) of the bay a parking mesh belongs to
PivotX(name) ==
    IF name \in {"lLine", "carL"} THEN aisleX_L
    ELSE IF name \in {"rLine", "carR"} THEN aisleX_R
    ELSE port2Center - coachAisleShift

PivotZ(name, bay) ==
    IF name \in {"lLine", "rLine", "carL", "carR"} THEN CarBayZ(bay) ELSE CoachBayZ(bay)

\* a box whose long side is its local z axis, turned by rotation.y = rot, has
\* that axis along (sin rot, 0, cos rot); the offset of length d along it
AxisX(rot, d) == Div(Sin(rot) * d, TrigScale)

AxisZ(rot, d) == Div(Cos(rot) * d, TrigScale)

\* the mesh centre is the pivot moved by d along the axis of rot, either way
OnAxis(m, rot, d) ==
    \/ /\ m.position[1] = PivotX(m.name) + AxisX(rot, d)
       /\ m.position[3] = PivotZ(m.name, m.bay) + AxisZ(rot, d)
    \/ /\ m.position[1] = PivotX(m.name) - AxisX(rot, d)
       /\ m.position[3] = PivotZ(m.name, m.bay) - AxisZ(rot, d)

\* C17 as stated: every bay divider has length vehicleLength, is rotated
\* about the vertical axis by +angleRad or -angleRad of its class's configured
\* angle (the two car rows by opposite signs), and its centre is the bay
\* pivot moved by half the divider length along the divider's rotated axis.
C17_DividerGeometry ==
    \A k \in 1 .. Len(parkingGroup) :
        LET m == parkingGroup[k]
            a == Radians(ClassOf(m.name).angle)
        IN m.name \in Dividers =>
              /\ m.len = ClassOf(m.name).length
              /\ m.rotation[2] \in {a, Neg(a)}
              /\ m.name = "lLine" =>
                    \A j \in InBay("rLine", m.bay) :
                        parkingGroup[j].rotation[2] = Neg(m.rotation[2])
              /\ OnAxis(m, m.rotation[2], Div(m.len, 2))

Vehicles == {"carL", "carR", "coach"}

\* the name of the divider drawn for the bay and row of a vehicle
DividerOf(name) ==
    IF name = "carL" THEN "lLine" ELSE IF name = "carR" THEN "rLine" ELSE "coachLine"

\* C18 as stated: every vehicle is rotated by its bay divider's rotation plus
\* 180 degrees and stands at the bay pivot moved by half the vehicle's
\* configured length along the divider's axis, with no other offset.
C18_VehicleAtHalfLength ==
    \A k \in 1 .. Len(parkingGroup) :
        LET m == parkingGroup[k]
        IN m.name \in Vehicles =>
              \A j \in InBay(DividerOf(m.name), m.bay) :
                  /\ m.rotation[2] = PlusPi(parkingGroup[j].rotation[2])
                  /\ OnAxis(m, parkingGroup[j].rotation[2], Div(ClassOf(m.name).length, 2))

\* ------------------------------------------------------------------------
\* The two vehicle classes and the random stream
\* ------------------------------------------------------------------------
\* the class has laid out its bay 0
BayZeroDone(class) == \E k \in Bays(class) : bayLocals[k].i = 0

\* C19 as stated: each class gets the output it gets when it is planned alone
\* on the same random stream, where it is the first to draw: the left car of
\* bay 0 is placed exactly when the first value of the stream exceeds 0.3, and
\* the coach of bay 0 exactly when the first value of the stream exceeds 0.4,
\* whatever the other class has done.
C19_SameAsAlone ==
    /\ BayZeroDone("car") =>
          ((InBay("carL", 0) # {}) <=> (randomTape[1] > carThreshold))
    /\ BayZeroDone("coach") =>
          ((InBay("coach", 0) # {}) <=> (randomTape[1] > coachThreshold))

\* ------------------------------------------------------------------------
\* The instance index of the solar panels
\* ------------------------------------------------------------------------
\* panels of one slope and of the whole roof, from the configuration
SlopePanels == CONFIG.solar.rowsPerSlope * CONFIG.solar.panelsPerRow

RoofPanels == CONFIG.solar.panelsPerRow * CONFIG.solar.rowsPerSlope * 2

\* C20: the k-th panel written (k from 0) is written at index k, so pIdx
\* starts at 0 and grows by exactly 1 per panel; every write is at an index
\* below totalPanels; left-slope panels take the indices row * panelsPerRow +
\* col in [0, rowsPerSlope * panelsPerRow), right-slope panels the indices
\* rowsPerSlope * panelsPerRow + row * panelsPerRow + col; when placement is
\* over every index in [0, totalPanels) has been written exactly once and
\* pIdx = totalPanels.
C20_InstanceIndex ==
    /\ \A k \in 1 .. Len(panelLocals) :
          LET e == panelLocals[k]
          IN /\ e.pIdx = k - 1
             /\ e.pIdx < RoofPanels
             /\ e.slope = "left" =>
                   /\ e.pIdx = e.row * CONFIG.solar.panelsPerRow + e.col
                   /\ e.pIdx < SlopePanels
             /\ e.slope = "right" =>
                   /\ e.pIdx = SlopePanels + e.row * CONFIG.solar.panelsPerRow + e.col
                   /\ e.pIdx >= SlopePanels
    /\ pc \in {"left", "right", "done"} =>
          /\ pIdx = Len(panelLocals)
          /\ DOMAIN solarInst.matrices = 0 .. pIdx - 1
    /\ pc = "done" =>
          /\ pIdx = RoofPanels
          /\ Len(panelLocals) = RoofPanels
          /\ DOMAIN solarInst.matrices = 0 .. RoofPanels - 1

\* a finished roof of two rows of two panels per slope: eight writes, the
\* fifth of them the first panel of the right slope
C20_Witness ==
    /\ pc = "done"
    /\ CONFIG.solar.rowsPerSlope = 2
    /\ CONFIG.solar.panelsPerRow = 2
    /\ pIdx = 8
    /\ panelLocals[5].slope = "right"
    /\ panelLocals[5].pIdx = 4
    /\ panelLocals[4].slope = "left"

\* ------------------------------------------------------------------------
\* Values consumed from the random stream
\* ------------------------------------------------------------------------
\* vehicles of the group standing in a bay below b of the row called name
PlacedBelow(name, b) ==
    Cardinality({k \in Indices(parkingGroup, name) : parkingGroup[k].bay < b})

VehiclesEmitted ==
    Count(parkingGroup, "carL") + Count(parkingGroup, "carR") + Count(parkingGroup, "coach")

\* bay sides decided, and vehicles placed, before the first side of bay b of
\* a class: the car loop runs before the coach loop
SidesBefore(class, b) ==
    IF class = "car" THEN 2 * b ELSE 2 * Cardinality(Bays("car")) + b

VehiclesBefore(class, b) ==
    IF class = "car" THEN PlacedBelow("carL", b) + PlacedBelow("carR", b)
    ELSE Count(parkingGroup, "carL") + Count(parkingGroup, "carR") + PlacedBelow("coach", b)

\* C21: the values consumed from the random stream number two per car bay
\* plus one per coach bay plus one per vehicle emitted; the draw that decides
\* a bay side is the stream value at position 1 + (bay sides decided before)
\* + (vehicles placed before), so its position moves with the outcome of
\* every earlier bay side.
C21_DrawCount ==
    /\ Len(randomTape) =
          2 * Cardinality(Bays("car")) + Cardinality(Bays("coach")) + VehiclesEmitted
    /\ parkingPc = "done" =>
          /\ Cardinality(Bays("car")) = Max0(numBays)
          /\ Cardinality(Bays("coach")) = Max0(numCoachBays)
    /\ \A k \in 1 .. Len(bayLocals) :
          LET e == bayLocals[k]
              first == 1 + SidesBefore(e.class, e.i) + VehiclesBefore(e.class, e.i)
          IN /\ e.at[1] = first
             /\ randomTape[e.at[1]] = e.draws[1]
             /\ e.class = "car" =>
                   /\ e.at[2] = first + 1 + (IF InBay("carL", e.i) # {} THEN 1 ELSE 0)
                   /\ randomTape[e.at[2]] = e.draws[2]

\* one car bay with both cars placed, then a coach bay with its coach: the
\* coach is decided by the fifth value of a stream of six
C21_Witness ==
    /\ parkingPc = "done"
    /\ Cardinality(Bays("car")) = 1
    /\ Cardinality(Bays("coach")) = 1
    /\ VehiclesEmitted = 3
    /\ Len(randomTape) = 6
    /\ \E k \in Bays("coach") : bayLocals[k].at = << 5 >>
    /\ \E k \in Bays("car") : bayLocals[k].at = << 1, 3 >>

\* ------------------------------------------------------------------------
\* The smallest structure
\* ------------------------------------------------------------------------
\* the left column of the last tick
LastColumn == group[4 * (Count(group, "colL") - 1) + 1]

\* C22: when length > 0 and columnSpacing > 0, colCount is
\* ceil(length / columnSpacing) + 1 of the exact quotient and at least 2, the
\* column loop never ends with fewer than two ticks, and the last column
\* stands at a z of at least +length / 2 and less than
\* length / 2 + columnSpacing.
C22_AtLeastTwoColumns ==
    (CONFIG.structure.length > 0 /\ CONFIG.structure.columnSpacing > 0) =>
        /\ pc \in {"columns", "left", "right", "done"} =>
              /\ colCount >= 2
              /\ (colCount - 2) * CONFIG.structure.columnSpacing < CONFIG.structure.length
              /\ (colCount - 1) * CONFIG.structure.columnSpacing >= CONFIG.structure.length
        /\ ColumnLoopOver =>
              /\ Count(group, "colL") = colCount
              /\ Count(group, "colL") >= 2
              /\ LastColumn.name = "colL"
              /\ 2 * LastColumn.position[3] >= CONFIG.structure.length
              /\ 2 * LastColumn.position[3]
                    < CONFIG.structure.length + 2 * CONFIG.structure.columnSpacing

====
